---- MODULE Spec2Model ----
(***************************************************************************)
(* Model of noisy_float: NoisyFloat<F, C>, a float wrapper whose checker C *)
(* (NumChecker / FiniteChecker) validates every constructed value.         *)
(*                                                                         *)
(* The native float type F is modelled as a small IEEE-754 binary format   *)
(* with one sign bit, EB exponent bits and MB mantissa bits: signed zeros, *)
(* subnormals, normals, both infinities and NaNs, round-to-nearest-even,   *)
(* overflow to infinity.  A float is its bit pattern (what transmute       *)
(* yields), an integer in 0 .. 2^(1+EB+MB)-1.                              *)
(***************************************************************************)
EXTENDS Integers, Sequences, FiniteSets, TLC

\* Exponent and mantissa widths of the modelled float format.
EB == 2
MB == 1
\* Longest slice handed to sort.
MaxLen == 3

RECURSIVE Pow2(_)
Pow2(n) == IF n = 0 THEN 1 ELSE 2 * Pow2(n - 1)

ExpSpan == Pow2(EB)
ManSpan == Pow2(MB)
EMax == ExpSpan - 1
Bias == Pow2(EB - 1) - 1
SignBit == ExpSpan * ManSpan
Floats == 0 .. (2 * SignBit - 1)

\* ---- bit fields ----------------------------------------------------------
SignOf(b) == b \div SignBit
ExpOf(b) == (b \div ManSpan) % ExpSpan
ManOf(b) == b % ManSpan
AbsBits(b) == b % SignBit

PosZero == 0
NegZero == SignBit
PosInf == EMax * ManSpan
NegInf == SignBit + PosInf
QNaN == PosInf + Pow2(MB - 1)
One == Bias * ManSpan
MaxFinite == PosInf - 1
MinFinite == SignBit + MaxFinite
MinPositive == ManSpan

\* ---- classification (F::is_nan, F::is_infinite, F::is_finite) ------------
is_nan(b) == ExpOf(b) = EMax /\ ManOf(b) # 0
is_infinite(b) == ExpOf(b) = EMax /\ ManOf(b) = 0
is_finite(b) == ExpOf(b) # EMax
is_zero(b) == AbsBits(b) = 0

\* Magnitude of a non-NaN pattern in units of the smallest subnormal; the
\* pattern of infinity gets the first power of two beyond the finite range,
\* which is the overflow threshold candidate of round-to-nearest.
MagOf(b) ==
    IF ExpOf(b) = 0 THEN ManOf(b)
    ELSE (ManSpan + ManOf(b)) * Pow2(ExpOf(b) - 1)

Mags == [b \in 0 .. PosInf |-> MagOf(b)]

Mag(b) == Mags[AbsBits(b)]

\* Number of units in 1.0.
UnitsPerOne == Pow2(Bias + MB - 1)

\* Signed value of a non-NaN pattern, in units.
Val(b) == IF SignOf(b) = 1 THEN 0 - Mag(b) ELSE Mag(b)

Abs(n) == IF n < 0 THEN 0 - n ELSE n

WithSign(s, b) == s * SignBit + AbsBits(b)

\* Round the exact non-negative rational n/d (in units) to the nearest
\* positive pattern, ties to the even mantissa; PosInf on overflow.  The
\* magnitudes grow with the pattern, so the patterns not above n/d are
\* 0 .. lo.
RoundPos(n, d) ==
    LET lo == Cardinality({b \in 0 .. MaxFinite : Mags[b] * d <= n}) - 1
        hi == lo + 1
    IN  IF Mag(lo) * d = n THEN lo
        ELSE IF 2 * n < (Mag(lo) + Mag(hi)) * d THEN lo
        ELSE IF 2 * n > (Mag(lo) + Mag(hi)) * d THEN hi
        ELSE IF lo % 2 = 0 THEN lo ELSE hi

Round(s, n, d) == WithSign(s, RoundPos(n, d))

Xor(s, t) == IF s = t THEN 0 ELSE 1

\* ---- native arithmetic of F (IEEE-754) -----------------------------------
FNeg(a) == IF SignOf(a) = 1 THEN a - SignBit ELSE a + SignBit

FAdd(a, b) ==
    IF is_nan(a) THEN a
    ELSE IF is_nan(b) THEN b
    ELSE IF is_infinite(a) /\ is_infinite(b)
        THEN (IF a = b THEN a ELSE QNaN)
    ELSE IF is_infinite(a) THEN a
    ELSE IF is_infinite(b) THEN b
    ELSE LET s == Val(a) + Val(b)
         IN  IF s = 0
             THEN (IF SignOf(a) = 1 /\ SignOf(b) = 1 THEN NegZero ELSE PosZero)
             ELSE Round(IF s < 0 THEN 1 ELSE 0, Abs(s), 1)

FSub(a, b) == IF is_nan(a) THEN a ELSE IF is_nan(b) THEN b ELSE FAdd(a, FNeg(b))

FMul(a, b) ==
    IF is_nan(a) THEN a
    ELSE IF is_nan(b) THEN b
    ELSE IF (is_infinite(a) /\ is_zero(b)) \/ (is_zero(a) /\ is_infinite(b))
        THEN QNaN
    ELSE IF is_infinite(a) \/ is_infinite(b)
        THEN WithSign(Xor(SignOf(a), SignOf(b)), PosInf)
    ELSE Round(Xor(SignOf(a), SignOf(b)), Mag(a) * Mag(b), UnitsPerOne)

FDiv(a, b) ==
    IF is_nan(a) THEN a
    ELSE IF is_nan(b) THEN b
    ELSE IF (is_infinite(a) /\ is_infinite(b)) \/ (is_zero(a) /\ is_zero(b))
        THEN QNaN
    ELSE IF is_infinite(a) \/ is_zero(b)
        THEN WithSign(Xor(SignOf(a), SignOf(b)), PosInf)
    ELSE IF is_infinite(b)
        THEN WithSign(Xor(SignOf(a), SignOf(b)), PosZero)
    ELSE Round(Xor(SignOf(a), SignOf(b)), Mag(a) * UnitsPerOne, Mag(b))

FRem(a, b) ==
    IF is_nan(a) THEN a
    ELSE IF is_nan(b) THEN b
    ELSE IF is_infinite(a) \/ is_zero(b) THEN QNaN
    ELSE IF is_infinite(b) THEN a
    ELSE Round(SignOf(a), Mag(a) % Mag(b), 1)

\* ---- native comparison of F ----------------------------------------------
FEq(a, b) == ~is_nan(a) /\ ~is_nan(b) /\ (a = b \/ (is_zero(a) /\ is_zero(b)))

FLt(a, b) ==
    /\ ~is_nan(a) /\ ~is_nan(b)
    /\ ~(is_zero(a) /\ is_zero(b))
    /\ IF SignOf(a) # SignOf(b) THEN SignOf(a) = 1
       ELSE IF SignOf(a) = 0 THEN a < b
       ELSE b < a

FLe(a, b) == FLt(a, b) \/ FEq(a, b)
FGt(a, b) == FLt(b, a)
FGe(a, b) == FLe(b, a)

FPartialCmp(a, b) ==
    LET le == FLe(a, b)
        ge == FGe(a, b)
    IN  IF ~le /\ ~ge THEN [tag |-> "None"]
        ELSE IF ~le THEN [tag |-> "Some", val |-> "Greater"]
        ELSE IF ~ge THEN [tag |-> "Some", val |-> "Less"]
        ELSE [tag |-> "Some", val |-> "Equal"]

FAbs(a) == AbsBits(a)
FRecip(a) == FDiv(One, a)

BinOps == {"add", "sub", "mul", "div", "rem"}

\* The five native operators, tabulated once over all pairs of patterns.
NativeTable ==
    [op \in BinOps |-> [a \in Floats |-> [b \in Floats |->
        CASE op = "add" -> FAdd(a, b)
          [] op = "sub" -> FSub(a, b)
          [] op = "mul" -> FMul(a, b)
          [] op = "div" -> FDiv(a, b)
          [] op = "rem" -> FRem(a, b)]]]

\* self.value.add(rhs), .sub(rhs), .mul(rhs), .div(rhs), .rem(rhs)
native(op, a, b) == NativeTable[op][a][b]

VARIABLES
    debug,      \* the build has debug assertions (debug_assert! is live)
    x,          \* the wrapped value operated on (self): [value, checker]
    arg,        \* the other operand: a raw float or a wrapped value
    out,        \* what the last call returned
    last,       \* the last call and the value of self when it was made
    status,     \* "running", or "panicked" once a call has aborted
    tainted,    \* unchecked_new was given a raw float its checker rejects
    list,       \* a slice of wrapped values (sorted by Ord::cmp)
    tree        \* a proptest value tree: [checker, flags, curr, moved]

vars == <<debug, x, arg, out, last, status, tainted, list, tree>>

Checkers == {"NumChecker", "FiniteChecker"}

\* ---- checkers.rs ---------------------------------------------------------
\* Mutation: NumChecker shares FiniteChecker's test.
NumChecker_check_finite(value) == is_finite(value)

NumChecker_check(value) == ~is_nan(value)

\* Mutation: FiniteChecker shares NumChecker's test.
FiniteChecker_check_nan_only(value) == ~is_nan(value)

FiniteChecker_check(value) == is_finite(value)

check(C, value) ==
    IF C = "NumChecker" THEN NumChecker_check(value)
    ELSE FiniteChecker_check(value)

\* debug_assert!(Self::check(value), ..): TRUE when the assertion panics.
NumChecker_assert(value) == debug /\ ~NumChecker_check(value)

FiniteChecker_assert(value) == debug /\ ~FiniteChecker_check(value)

assert_panics(C, value) ==
    IF C = "NumChecker" THEN NumChecker_assert(value)
    ELSE FiniteChecker_assert(value)

\* ---- results of a call ---------------------------------------------------
NoOut == [tag |-> "none"]
Panicked == [tag |-> "panic"]
Ret(n) == [tag |-> "value", val |-> n]
Unit == [tag |-> "unit"]
SomeOf(n) == [tag |-> "Some", val |-> n]
NoneOf == [tag |-> "None"]
OkOf(n) == [tag |-> "Ok", val |-> n]
ErrOf(e) == [tag |-> "Err", val |-> e]
BoolOf(v) == [tag |-> "bool", val |-> v]
OrderingOf(o) == [tag |-> "Ordering", val |-> o]
WordOf(w) == [tag |-> "word", val |-> w]

\* ---- constructors of NoisyFloat<F, C> ------------------------------------
unchecked_new_generic(C, value) == [value |-> value, checker |-> C]

new(C, value) ==
    IF assert_panics(C, value) THEN Panicked
    ELSE Ret(unchecked_new_generic(C, value))

try_new(C, value) ==
    IF check(C, value) THEN SomeOf(unchecked_new_generic(C, value))
    ELSE NoneOf

raw(n) == n.value

\* Option::ok_or
ok_or(opt, e) == IF opt.tag = "Some" THEN OkOf(opt.val) ELSE ErrOf(e)

\* ---- checkers.rs: conversions between the two checkers -------------------
\* Mutation: the widening goes through a narrower mantissa.
from_finite_truncating(value) ==
    Ret(unchecked_new_generic("NumChecker", raw(value) - (raw(value) % 2)))

\* From<NoisyFloat<F, FiniteChecker>> for NoisyFloat<F, NumChecker>
from_finite(value) == Ret(unchecked_new_generic("NumChecker", raw(value)))

\* Mutation: the narrowing uses the panicking constructor.
try_from_num_panicking(f) ==
    IF new("FiniteChecker", f.value).tag = "panic" THEN Panicked
    ELSE OkOf(new("FiniteChecker", f.value).val)

\* TryFrom<NoisyFloat<F, NumChecker>> for NoisyFloat<F, FiniteChecker>
try_from_num(f) == ok_or(try_new("FiniteChecker", f.value), "illegal value")

\* ---- float_impl.rs: equality, ordering, hashing --------------------------
\* Mutation: equality of the bit patterns.
eq_F_bitwise(self, other) == self.value = other

\* PartialEq<F>
eq_F(self, other) == FEq(self.value, other)
\* PartialEq
eq(self, other) == eq_F(self, other.value)

\* PartialOrd<F>
partial_cmp_F(self, other) == FPartialCmp(self.value, other)
lt_F(self, other) == FLt(self.value, other)
le_F(self, other) == FLe(self.value, other)
gt_F(self, other) == FGt(self.value, other)
ge_F(self, other) == FGe(self.value, other)
\* PartialOrd
partial_cmp(self, other) == FPartialCmp(self.value, other.value)
lt(self, other) == lt_F(self, other.value)
le(self, other) == le_F(self, other.value)
gt(self, other) == gt_F(self, other.value)
ge(self, other) == ge_F(self, other.value)

\* Mutation: Less is decided with <=.
cmp_le(self, other) ==
    IF FLe(self.value, other.value) THEN "Less"
    ELSE IF FEq(self.value, other.value) THEN "Equal"
    ELSE "Greater"

\* Mutation: the order of the bit patterns, sign first.
cmp_bits(self, other) ==
    IF SignOf(self.value) # SignOf(other.value)
        THEN (IF SignOf(self.value) = 1 THEN "Less" ELSE "Greater")
    ELSE IF self.value = other.value THEN "Equal"
    ELSE IF (self.value < other.value) = (SignOf(self.value) = 0) THEN "Less"
    ELSE "Greater"

\* Ord
cmp(self, other) ==
    IF FLt(self.value, other.value) THEN "Less"
    ELSE IF FEq(self.value, other.value) THEN "Equal"
    ELSE "Greater"

\* transmute::<f32, u32> / transmute::<f64, u64>: the unsigned integer whose
\* bits are sign, exponent, mantissa from the most significant bit down.
transmute(value) ==
    SignOf(value) * SignBit + ExpOf(value) * ManSpan + ManOf(value)

\* Mutation: the bit pattern is hashed for every value.
hash_raw_bits(self) == transmute(self.value)

\* Hash: the word handed to the hasher.
hash(self) ==
    IF FEq(self.value, PosZero) THEN 0
    ELSE transmute(self.value)

\* ---- float_impl.rs: operators --------------------------------------------
\* Mutation: the raw operand goes through the panicking constructor first.
NoisyFloat_op_F_checks_operand(op, self, rhs) ==
    IF new(self.checker, rhs).tag = "panic" THEN Panicked
    ELSE new(self.checker, native(op, self.value, rhs))

\* op_impl!(.., (NoisyFloat<F, C>, F), ..)
NoisyFloat_op_F(op, self, rhs) ==
    new(self.checker, native(op, self.value, rhs))

\* op_impl!(.., (NoisyFloat<F, C>, NoisyFloat<F, C>), ..)
NoisyFloat_op_NoisyFloat(op, self, rhs) == NoisyFloat_op_F(op, self, rhs.value)

\* float_left_op_impls!: op_impl!(.., ($ftp, NoisyFloat<$ftp, C>), ..)
F_op_NoisyFloat(op, self, rhs) ==
    new(rhs.checker, native(op, self, rhs.value))

\* Mutation: the assertion after the in-place update is missing.
op_assign_F_no_assert(op, self, rhs) ==
    [self |-> [self EXCEPT !.value = native(op, self.value, rhs)],
     ret |-> Unit]

\* OpAssign<F>: self.value.op_assign(rhs); C::assert(self.value);
\* the target holds the new raw value before the assertion runs.
\* mutation: the assertion made before the update, on the old value
op_assign_F_asserts_first(op, self, rhs) ==
    [self |-> [self EXCEPT !.value = native(op, self.value, rhs)],
     ret |-> IF assert_panics(self.checker, self.value) THEN Panicked ELSE Unit]

op_assign_F(op, self, rhs) ==
    LET stored == [self EXCEPT !.value = native(op, self.value, rhs)]
    IN  [self |-> stored,
         ret |-> IF assert_panics(self.checker, stored.value) THEN Panicked
                 ELSE Unit]

\* OpAssign<Self>
op_assign_NoisyFloat(op, self, rhs) == op_assign_F(op, self, rhs.value)

\* Neg
neg(self) == new(self.checker, FNeg(self.value))

\* Zero::zero
zero(C) == new(C, PosZero)

\* ---- float_compat.rs: raw op wrapped --------------------------------------
CompatOps == {"add", "sub", "mul", "div"}

\* mutation: the operands of the wrapped operator exchanged
compat_F_op_NoisyFloat_swapped(op, self, rhs) ==
    IF new(rhs.checker, self).tag = "panic" THEN Panicked
    ELSE NoisyFloat_op_NoisyFloat(op, rhs, new(rhs.checker, self).val)

\* NoisyFloat::new(self) op rhs
compat_F_op_NoisyFloat(op, self, rhs) ==
    IF new(rhs.checker, self).tag = "panic" THEN Panicked
    ELSE NoisyFloat_op_NoisyFloat(op, new(rhs.checker, self).val, rhs)

\* ---- float_impl.rs: fallible conversions ---------------------------------
\* Largest magnitude of the integers handed to FromPrimitive / NumCast.
MaxInt == 4
Ints == (0 - MaxInt) .. MaxInt

\* F::from_i64(n), F::from_u128(n), ..: n as F, the nearest float, infinity on
\* overflow; always Some for a float target.
F_from_int(n) == SomeOf(Round(IF n < 0 THEN 1 ELSE 0, Abs(n) * UnitsPerOne, 1))

\* F::from_f32(n) / F::from_f64(n) / F::from(n) on a primitive n: an integer
\* is rounded, a float of the type F itself is kept (NaN included).
F_from(n) == IF n.kind = "int" THEN F_from_int(n.value) ELSE SomeOf(n.value)

\* mutation: built like From<i8>, Some(Self::new(F::from_X(n)?))
from_primitive_via_new(C, n) ==
    IF F_from(n).tag = "None" THEN NoneOf
    ELSE IF new(C, F_from(n).val).tag = "panic" THEN Panicked
    ELSE SomeOf(new(C, F_from(n).val).val)

\* FromPrimitive::from_X:  Self::try_new(F::from_X(n)?)
from_primitive(C, n) ==
    IF F_from(n).tag = "None" THEN NoneOf
    ELSE try_new(C, F_from(n).val)

\* NumCast::from:  F::from(n).and_then(|v| Self::try_new(v))
NumCast_from(C, n) ==
    IF F_from(n).tag = "None" THEN NoneOf
    ELSE try_new(C, F_from(n).val)

\* From<NoisyFloat<F, C>> for F:  n.value
into_F(n) == n.value

\* mutation: TryFrom<F> checking finiteness whatever the checker
try_from_F_finite_only(C, f) ==
    IF is_finite(f) THEN OkOf(unchecked_new_generic(C, f)) ELSE ErrOf("illegal value")

\* TryFrom<f32> / TryFrom<f64>:  Self::try_new(f).ok_or("illegal value")
try_from_F(C, f) == ok_or(try_new(C, f), "illegal value")

\* ---- float_impl.rs: Num::from_str_radix ------------------------------------
\* The strings parsed (radix 10): empty, not a number, the three names the
\* float parser knows, and decimal integers up to one beyond the finite range
\* of the base format.
Strs == {"", "x", "NaN", "inf", "-inf", "0", "-0", "1", "-1", "3", "9"}

Decimals == [s \in {"0", "-0", "1", "-1", "3", "9"} |->
               CASE s \in {"0", "-0"} -> 0
                 [] s \in {"1", "-1"} -> 1
                 [] s = "3" -> 3
                 [] s = "9" -> 9]

\* F::from_str_radix(str, 10): Err on an empty or malformed string, the named
\* special values, otherwise the nearest float of the decimal (infinity on
\* overflow, -0.0 for "-0").
F_from_str_radix(str) ==
    IF str = "" THEN ErrOf("Empty")
    ELSE IF str = "NaN" THEN OkOf(QNaN)
    ELSE IF str = "inf" THEN OkOf(PosInf)
    ELSE IF str = "-inf" THEN OkOf(NegInf)
    ELSE IF str \notin DOMAIN Decimals THEN ErrOf("Invalid")
    ELSE OkOf(Round(IF str \in {"-0", "-1"} THEN 1 ELSE 0,
                    Decimals[str] * UnitsPerOne, 1))

\* mutation: the parsed float through try_new, a rejected one reported as Err
from_str_radix_via_try_new(C, str) ==
    IF F_from_str_radix(str).tag = "Err" THEN F_from_str_radix(str)
    ELSE ok_or(try_new(C, F_from_str_radix(str).val), "Invalid")

\* Num::from_str_radix:  F::from_str_radix(str, radix).map(|v| Self::new(v))
from_str_radix(C, str) ==
    IF F_from_str_radix(str).tag = "Err" THEN F_from_str_radix(str)
    ELSE IF new(C, F_from_str_radix(str).val).tag = "panic" THEN Panicked
    ELSE OkOf(new(C, F_from_str_radix(str).val).val)

\* ---- float_impl.rs: Float ------------------------------------------------
FloatConsts == {"nan", "infinity", "neg_infinity", "neg_zero", "min_value",
                "min_positive_value", "max_value"}
FloatFns == {"abs", "recip"}

\* mutation: nan() built like the other constants, Self::new(F::nan())
float_const_nan_via_new(C, f) ==
    CASE f = "nan" -> new(C, QNaN)
      [] f = "infinity" -> new(C, PosInf)
      [] f = "neg_infinity" -> new(C, NegInf)
      [] f = "neg_zero" -> new(C, NegZero)
      [] f = "min_value" -> new(C, MinFinite)
      [] f = "min_positive_value" -> new(C, MinPositive)
      [] f = "max_value" -> new(C, MaxFinite)

float_const(C, f) ==
    CASE f = "nan" -> Panicked
      [] f = "infinity" -> new(C, PosInf)
      [] f = "neg_infinity" -> new(C, NegInf)
      [] f = "neg_zero" -> new(C, NegZero)
      [] f = "min_value" -> new(C, MinFinite)
      [] f = "min_positive_value" -> new(C, MinPositive)
      [] f = "max_value" -> new(C, MaxFinite)

float_fn(f, self) ==
    CASE f = "abs" -> new(self.checker, FAbs(self.value))
      [] f = "recip" -> new(self.checker, FRecip(self.value))

\* ---- the state machine ---------------------------------------------------
RawArg(r) == [kind |-> "raw", value |-> r, checker |-> "-"]
StrArg(s) == [kind |-> "str", value |-> 0, checker |-> "-", text |-> s]
IntArg(n) == [kind |-> "int", value |-> n, checker |-> "-"]
WrappedArg(n) == [kind |-> "wrapped", value |-> n.value, checker |-> n.checker]
ArgValue == [value |-> arg.value, checker |-> arg.checker]
Idle == [op |-> "none", form |-> "-", self |-> x]
Called(op, form) == [op |-> op, form |-> form, self |-> x]

Ready == status = "running" /\ last.op = "none"

Init ==
    /\ debug \in BOOLEAN
    /\ \E C \in Checkers : x = unchecked_new_generic(C, PosZero)
    /\ arg = RawArg(PosZero)
    /\ out = NoOut
    /\ last = [op |-> "none", form |-> "-", self |-> x]
    /\ status = "running"
    /\ tainted = FALSE
    /\ list = <<>>
    /\ tree = [checker |-> "-", flags |-> {}, curr |-> PosZero, moved |-> FALSE]

\* A call returns: record it, and abort the execution if it panicked.
Return(op, form, result) ==
    /\ out' = result
    /\ last' = Called(op, form)
    /\ status' = IF result.tag = "panic" THEN "panicked" ELSE "running"

\* let r: F = ..;
LoadRaw(r) ==
    /\ Ready
    /\ arg' = RawArg(r)
    /\ UNCHANGED <<debug, x, out, last, status, tainted, list, tree>>

\* let other = self.clone();   (Clone / Copy)
Clone ==
    /\ Ready
    /\ arg' = WrappedArg(unchecked_new_generic(x.checker, x.value))
    /\ UNCHANGED <<debug, x, out, last, status, tainted, list, tree>>

\* NoisyFloat::new(r)
New ==
    /\ Ready /\ arg.kind = "raw"
    /\ Return("new", "-", new(x.checker, arg.value))
    /\ UNCHANGED <<debug, x, arg, tainted, list, tree>>

\* NoisyFloat::try_new(r)
TryNew ==
    /\ Ready /\ arg.kind = "raw"
    /\ Return("try_new", "-", try_new(x.checker, arg.value))
    /\ UNCHANGED <<debug, x, arg, tainted, list, tree>>

\* NoisyFloat::unchecked_new(r)
UncheckedNew ==
    /\ Ready /\ arg.kind = "raw"
    /\ Return("unchecked_new", "-", Ret(unchecked_new_generic(x.checker, arg.value)))
    /\ tainted' = (tainted \/ ~check(x.checker, arg.value))
    /\ UNCHANGED <<debug, x, arg, list, tree>>

\* self op rhs, rhs raw or wrapped; raw op self
BinOp(op, form) ==
    /\ Ready
    /\ \/ /\ form = "NoisyFloat_F" /\ arg.kind = "raw"
          /\ Return(op, form, NoisyFloat_op_F(op, x, arg.value))
       \/ /\ form = "NoisyFloat_NoisyFloat"
          /\ arg.kind = "wrapped" /\ arg.checker = x.checker
          /\ Return(op, form, NoisyFloat_op_NoisyFloat(op, x, ArgValue))
       \/ /\ form = "F_NoisyFloat" /\ arg.kind = "raw"
          /\ Return(op, form, F_op_NoisyFloat(op, arg.value, x))
    /\ UNCHANGED <<debug, x, arg, tainted, list, tree>>

\* raw op self, through float_compat.rs
CompatOp(op) ==
    /\ Ready /\ arg.kind = "raw"
    /\ Return("compat_" \o op, "F_NoisyFloat", compat_F_op_NoisyFloat(op, arg.value, x))
    /\ UNCHANGED <<debug, x, arg, tainted, list, tree>>

\* self op= rhs, rhs raw or wrapped
OpAssign(op, form) ==
    /\ Ready
    /\ \/ /\ form = "NoisyFloat_F" /\ arg.kind = "raw"
          /\ x' = op_assign_F(op, x, arg.value).self
          /\ Return(op \o "_assign", form, op_assign_F(op, x, arg.value).ret)
       \/ /\ form = "NoisyFloat_NoisyFloat"
          /\ arg.kind = "wrapped" /\ arg.checker = x.checker
          /\ x' = op_assign_NoisyFloat(op, x, ArgValue).self
          /\ Return(op \o "_assign", form, op_assign_NoisyFloat(op, x, ArgValue).ret)
    /\ UNCHANGED <<debug, arg, tainted, list, tree>>

\* -self
Neg ==
    /\ Ready
    /\ Return("neg", "-", neg(x))
    /\ UNCHANGED <<debug, x, arg, tainted, list, tree>>

\* Float::nan(), Float::infinity(), ..
FloatConst(f) ==
    /\ Ready
    /\ Return(f, "-", float_const(x.checker, f))
    /\ UNCHANGED <<debug, x, arg, tainted, list, tree>>

\* self.abs(), self.recip()
FloatFn(f) ==
    /\ Ready
    /\ Return(f, "-", float_fn(f, x))
    /\ UNCHANGED <<debug, x, arg, tainted, list, tree>>

\* NoisyFloat::<F, NumChecker>::from(self)
Widen ==
    /\ Ready /\ x.checker = "FiniteChecker"
    /\ Return("from", "-", from_finite(x))
    /\ UNCHANGED <<debug, x, arg, tainted, list, tree>>

\* NoisyFloat::<F, FiniteChecker>::try_from(self)
Narrow ==
    /\ Ready /\ x.checker = "NumChecker"
    /\ Return("try_from", "-", try_from_num(x))
    /\ UNCHANGED <<debug, x, arg, tainted, list, tree>>

\* let n: i64 = ..;
LoadInt(n) ==
    /\ Ready
    /\ arg' = IntArg(n)
    /\ UNCHANGED <<debug, x, out, last, status, tainted, list, tree>>

\* NoisyFloat::from_i64(n), NoisyFloat::from_f64(r), ..
FromPrimitive ==
    /\ Ready /\ arg.kind \in {"int", "raw"}
    /\ Return("from_primitive", "-", from_primitive(x.checker, arg))
    /\ UNCHANGED <<debug, x, arg, tainted, list, tree>>

\* <NoisyFloat as NumCast>::from(n)
NumCastFrom ==
    /\ Ready /\ arg.kind \in {"int", "raw"}
    /\ Return("numcast_from", "-", NumCast_from(x.checker, arg))
    /\ UNCHANGED <<debug, x, arg, tainted, list, tree>>

\* let r: F = self.raw();   let r: F = self.into();
ExtractRaw ==
    /\ Ready
    /\ arg' \in {RawArg(raw(x)), RawArg(into_F(x))}
    /\ UNCHANGED <<debug, x, out, last, status, tainted, list, tree>>

\* NoisyFloat::try_from(r)
TryFromF ==
    /\ Ready /\ arg.kind = "raw"
    /\ Return("try_from_F", "-", try_from_F(x.checker, arg.value))
    /\ UNCHANGED <<debug, x, arg, tainted, list, tree>>

\* let s: &str = ..;
LoadStr(s) ==
    /\ Ready
    /\ arg' = StrArg(s)
    /\ UNCHANGED <<debug, x, out, last, status, tainted, list, tree>>

\* NoisyFloat::from_str_radix(s, 10)
FromStrRadix ==
    /\ Ready /\ arg.kind = "str"
    /\ Return("from_str_radix", "-", from_str_radix(x.checker, arg.text))
    /\ UNCHANGED <<debug, x, arg, tainted, list, tree>>

\* C::check(r)
Check ==
    /\ Ready /\ arg.kind = "raw"
    /\ Return("check", "-", BoolOf(check(x.checker, arg.value)))
    /\ UNCHANGED <<debug, x, arg, tainted, list, tree>>

CmpOps == {"eq", "partial_cmp", "lt", "le", "gt", "ge", "cmp"}

compare(op, self, other) ==
    CASE op = "eq" -> BoolOf(eq(self, other))
      [] op = "partial_cmp" -> partial_cmp(self, other)
      [] op = "lt" -> BoolOf(lt(self, other))
      [] op = "le" -> BoolOf(le(self, other))
      [] op = "gt" -> BoolOf(gt(self, other))
      [] op = "ge" -> BoolOf(ge(self, other))
      [] op = "cmp" -> OrderingOf(cmp(self, other))

\* self == other, self.cmp(&other), self < other, ..
Compare(op) ==
    /\ Ready /\ arg.kind = "wrapped" /\ arg.checker = x.checker
    /\ Return(op, "NoisyFloat_NoisyFloat", compare(op, x, ArgValue))
    /\ UNCHANGED <<debug, x, arg, tainted, list, tree>>

\* self.hash(&mut state)
Hash ==
    /\ Ready
    /\ Return("hash", "-", WordOf(hash(x)))
    /\ UNCHANGED <<debug, x, arg, tainted, list, tree>>

\* let x = <the value returned>;
Store ==
    /\ status = "running" /\ last.op \notin {"none", "check"} \cup CmpOps
    /\ out.tag \in {"value", "Some", "Ok"}
    /\ x' = out.val
    /\ out' = NoOut
    /\ last' = [op |-> "none", form |-> "-", self |-> x']
    /\ UNCHANGED <<debug, arg, status, tainted, list, tree>>

\* the value returned is dropped
Drop ==
    /\ status = "running" /\ last.op # "none"
    /\ out' = NoOut
    /\ last' = Idle
    /\ UNCHANGED <<debug, x, arg, status, tainted, list, tree>>

Next ==
    \/ \E r \in Floats : LoadRaw(r)
    \/ Clone
    \/ New
    \/ TryNew
    \/ UncheckedNew
    \/ Check
    \/ \E op \in BinOps :
         \E form \in {"NoisyFloat_F", "NoisyFloat_NoisyFloat", "F_NoisyFloat"} :
           BinOp(op, form)
    \/ \E op \in BinOps :
         \E form \in {"NoisyFloat_F", "NoisyFloat_NoisyFloat"} : OpAssign(op, form)
    \/ \E op \in CompatOps : CompatOp(op)
    \/ Neg
    \/ \E f \in FloatConsts : FloatConst(f)
    \/ \E f \in FloatFns : FloatFn(f)
    \/ Widen
    \/ Narrow
    \/ \E op \in CmpOps : Compare(op)
    \/ Hash
    \/ Store
    \/ Drop

Spec == Init /\ [][Next]_vars

\* ---- constructing from primitives, strings and extracted floats ---------
NextConv ==
    \/ \E r \in Floats : LoadRaw(r)
    \/ \E n \in Ints : LoadInt(n)
    \/ \E s \in Strs : LoadStr(s)
    \/ ExtractRaw
    \/ TryNew
    \/ TryFromF
    \/ FromPrimitive
    \/ NumCastFrom
    \/ FromStrRadix
    \/ Narrow
    \/ Store
    \/ Drop

SpecConv == Init /\ [][NextConv]_vars

\* ---- sorting a slice of valid values with Ord::cmp ------------------------
\* slice::sort: stable insertion of each element after the elements that do
\* not compare Greater than it.
RECURSIVE insert(_, _)
insert(s, v) ==
    IF s = <<>> THEN <<v>>
    ELSE IF cmp(s[Len(s)], v) = "Greater"
        THEN Append(insert(SubSeq(s, 1, Len(s) - 1), v), s[Len(s)])
    ELSE Append(s, v)

RECURSIVE sort(_)
sort(s) ==
    IF s = <<>> THEN <<>>
    ELSE insert(sort(SubSeq(s, 1, Len(s) - 1)), s[Len(s)])

\* The raw floats a slice is filled from: both infinities, the largest and
\* smallest finite values, one, the smallest subnormal, both zeros, a NaN.
Samples ==
    {NegInf, MinFinite, FNeg(One), FNeg(1), NegZero,
     PosZero, 1, One, MaxFinite, PosInf, QNaN}

\* if let Some(n) = NoisyFloat::try_new(r) { slice.push(n) }
Push(r) ==
    /\ Ready /\ Len(list) < MaxLen
    /\ try_new(x.checker, r).tag = "Some"
    /\ list' = Append(list, try_new(x.checker, r).val)
    /\ UNCHANGED <<debug, x, arg, out, last, status, tainted, tree>>

\* slice.sort()
SortList ==
    /\ Ready
    /\ list' = sort(list)
    /\ last' = [op |-> "sort", form |-> "-", self |-> list]
    /\ out' = Unit
    /\ UNCHANGED <<debug, x, arg, status, tainted, tree>>

NextSort ==
    \/ \E r \in Samples : Push(r)
    \/ SortList

SpecSort == Init /\ [][NextSort]_vars

\* ---- float_impl.rs: iter::Sum, iter::Product -----------------------------
\* One::one
one(C) == new(C, One)

\* iter.map(|i| i.raw())
RECURSIVE map_raw(_)
map_raw(s) == IF s = <<>> THEN <<>> ELSE <<raw(Head(s))>> \o map_raw(Tail(s))

\* Iterator::fold(init, |acc, i| acc op i) over raw floats
RECURSIVE fold(_, _, _)
fold(op, acc, s) ==
    IF s = <<>> THEN acc ELSE fold(op, native(op, acc, Head(s)), Tail(s))

\* iter::Sum
sum(C, iter) == new(C, fold("add", PosZero, map_raw(iter)))

\* mutation: the product folded from F::zero() like the sum
product_from_zero(C, iter) == new(C, fold("mul", PosZero, map_raw(iter)))

\* iter::Product
product(C, iter) == new(C, fold("mul", One, map_raw(iter)))

\* slice.iter().sum()
SumList ==
    /\ Ready
    /\ Return("sum", "-", sum(x.checker, list))
    /\ UNCHANGED <<debug, x, arg, tainted, list, tree>>

\* slice.iter().product()
ProductList ==
    /\ Ready
    /\ Return("product", "-", product(x.checker, list))
    /\ UNCHANGED <<debug, x, arg, tainted, list, tree>>

NextFold ==
    \/ \E r \in Samples : Push(r)
    \/ SumList
    \/ ProductList

SpecFold == Init /\ [][NextFold]_vars

\* ---- proptest.rs: strategies and value trees -----------------------------
\* proptest's FloatTypes flags joined by the two strategies.
\* mutation: the FiniteChecker strategy copied from NumChecker's, INFINITE kept
FiniteFlags_with_infinite ==
    {"INFINITE", "NEGATIVE", "POSITIVE", "NORMAL", "SUBNORMAL", "ZERO"}

FiniteFlags == {"NEGATIVE", "POSITIVE", "NORMAL", "SUBNORMAL", "ZERO"}
NumFlags == {"INFINITE", "NEGATIVE", "POSITIVE", "NORMAL", "SUBNORMAL", "ZERO"}

strategy_flags(C) == IF C = "NumChecker" THEN NumFlags ELSE FiniteFlags

\* F::classify, as a FloatTypes class flag
classify(b) ==
    IF is_nan(b) THEN "QUIET_NAN"
    ELSE IF is_infinite(b) THEN "INFINITE"
    ELSE IF is_zero(b) THEN "ZERO"
    ELSE IF ExpOf(b) = 0 THEN "SUBNORMAL"
    ELSE "NORMAL"

\* What the float strategy built from a set of flags generates and what its
\* BinarySearch tree repositions to: a float whose class and sign are among
\* the flags.
current_allowed(flags, b) ==
    /\ classify(b) \in flags
    /\ is_nan(b) \/ (IF SignOf(b) = 1 THEN "NEGATIVE" ELSE "POSITIVE") \in flags

\* Tree::current
Tree_current(t) == unchecked_new_generic(t.checker, t.curr)

\* Any<F, C>::new_tree(runner): the runner's random source picks the float.
NewTree(C) ==
    /\ status = "running"
    /\ \E v \in Floats :
         /\ current_allowed(strategy_flags(C), v)
         /\ tree' = [checker |-> C, flags |-> strategy_flags(C), curr |-> v,
                     moved |-> FALSE]
    /\ out' = NoOut
    /\ last' = [op |-> "new_tree", form |-> "-", self |-> x]
    /\ UNCHANGED <<debug, x, arg, status, tainted, list>>

\* Tree::simplify / Tree::complicate: the inner tree either stays where it is
\* and returns false, or repositions to another acceptable float and returns
\* true.
Reposition(op) ==
    /\ status = "running" /\ tree.checker # "-"
    /\ \/ /\ out' = BoolOf(FALSE)
          /\ tree' = tree
       \/ /\ out' = BoolOf(TRUE)
          /\ \E v \in Floats \ {tree.curr} :
               /\ current_allowed(tree.flags, v)
               /\ tree' = [tree EXCEPT !.curr = v, !.moved = TRUE]
    /\ last' = [op |-> op, form |-> "-", self |-> x]
    /\ UNCHANGED <<debug, x, arg, status, tainted, list>>

Simplify == Reposition("simplify")
Complicate == Reposition("complicate")

\* tree.current()
Current ==
    /\ status = "running" /\ tree.checker # "-"
    /\ out' = Ret(Tree_current(tree))
    /\ last' = [op |-> "current", form |-> "-", self |-> x]
    /\ UNCHANGED <<debug, x, arg, status, tainted, list, tree>>

NextGen ==
    \/ \E C \in Checkers : NewTree(C)
    \/ Simplify
    \/ Complicate
    \/ Current

SpecGen == Init /\ [][NextGen]_vars

\* ---- vocabulary of the properties ----------------------------------------
NaNs == {b \in Floats : AbsBits(b) > PosInf}
Infs == {PosInf, NegInf}
Zeros == {PosZero, NegZero}

\* The value is one its checker's policy allows.
PolicyHolds(n) ==
    /\ n.value \notin NaNs
    /\ n.checker = "FiniteChecker" => n.value \notin Infs

\* Two non-NaN floats denote the same number.
SameNumber(a, b) ==
    /\ a \notin NaNs /\ b \notin NaNs
    /\ Val(a) = Val(b)

OutIsValue == out.tag \in {"value", "Some", "Ok"} /\ last.op \notin {"check"} \cup CmpOps

\* Both operands of the last comparison are wrapped values their policy allows.
ValidPair ==
    /\ arg.kind = "wrapped" /\ arg.checker = x.checker
    /\ PolicyHolds(x) /\ PolicyHolds(ArgValue)

\* C1: with debug assertions on and no invalid unchecked construction, every
\* wrapped value of an execution that has not aborted satisfies its policy:
\* no NaN under NumChecker, no NaN and no infinity under FiniteChecker.
C1_SafeValuesSatisfyPolicy ==
    (debug /\ ~tainted /\ status = "running") =>
        /\ PolicyHolds(x)
        /\ arg.kind = "wrapped" => PolicyHolds(ArgValue)
        /\ OutIsValue => PolicyHolds(out.val)

C1_Witness ==
    /\ debug /\ ~tainted /\ status = "running"
    /\ last.op = "div_assign" /\ x.checker = "FiniteChecker"
    /\ last.self.value \notin Zeros /\ x.value # last.self.value
    /\ arg.kind = "wrapped"

\* C2: NumChecker::check(r) is true iff r is not NaN, FiniteChecker::check(r)
\* iff r is neither NaN nor an infinity; the answer depends on r alone.
C2_CheckIsClassification ==
    last.op = "check" =>
        /\ out.tag = "bool"
        /\ out.val = IF x.checker = "NumChecker" THEN arg.value \notin NaNs
                     ELSE arg.value \notin NaNs \cup Infs

C2_Witness ==
    /\ last.op = "check" /\ x.checker = "FiniteChecker"
    /\ arg.value = NegInf /\ out.val = FALSE

\* C3: widening a FiniteChecker value that satisfies its check never fails or
\* aborts and yields a NumChecker value with the same raw float, which
\* satisfies NumChecker::check.
C3_WideningIsLossless ==
    (last.op = "from" /\ FiniteChecker_check(x.value)) =>
        /\ status = "running"
        /\ out.tag = "value"
        /\ out.val.checker = "NumChecker"
        /\ raw(out.val) = x.value
        /\ out.val.value \notin NaNs

C3_Witness ==
    /\ last.op = "from" /\ FiniteChecker_check(x.value)
    /\ x.value = MinFinite /\ out.tag = "value"

\* C4: narrowing a valid NumChecker value returns Ok with the same raw float
\* iff the raw float is not infinite, and Err("illegal value"), without
\* aborting, exactly when it is +infinity or -infinity.
C4_NarrowingFailsOnInfinity ==
    (last.op = "try_from" /\ PolicyHolds(x)) =>
        /\ status = "running"
        /\ out = IF x.value \in Infs THEN ErrOf("illegal value")
                 ELSE OkOf([value |-> x.value, checker |-> "FiniteChecker"])

C4_Witness ==
    /\ last.op = "try_from" /\ PolicyHolds(x)
    /\ debug /\ x.value = NegInf /\ out.tag = "Err"

\* C5: for valid a, b of one policy, a == b iff the raw floats are the same
\* number; so == is reflexive, symmetric and transitive, and +0.0 == -0.0.
C5_EqIsNumericEquality ==
    (last.op = "eq" /\ ValidPair) =>
        /\ out.val = SameNumber(x.value, arg.value)
        /\ eq(x, x)
        /\ eq(ArgValue, x) = out.val
        /\ (x.value \in Zeros /\ arg.value \in Zeros) => out.val
        /\ \A c \in Floats :
             (check(x.checker, c) /\ out.val /\ eq(ArgValue, [x EXCEPT !.value = c]))
                 => eq(x, [x EXCEPT !.value = c])

C5_Witness ==
    /\ last.op = "eq" /\ ValidPair
    /\ x.value = PosZero /\ arg.value = NegZero /\ out.val = TRUE

\* C6: the word fed to the hasher is 0 for +0.0 and -0.0 and the raw bit
\* pattern otherwise; for valid a, b the hashed words are equal iff a == b.
C6_HashAgreesWithEq ==
    (last.op = "hash" /\ PolicyHolds(x)) =>
        /\ out.tag = "word"
        /\ out.val = IF x.value \in Zeros THEN 0 ELSE x.value
        /\ ValidPair => ((out.val = hash(ArgValue)) <=> eq(x, ArgValue))

C6_Witness ==
    /\ last.op = "hash" /\ ValidPair
    /\ x.value = NegZero /\ arg.value = PosZero /\ out.val = 0

Reverse(o) == IF o = "Less" THEN "Greater" ELSE IF o = "Greater" THEN "Less" ELSE o

\* C7: over a slice of valid values Ord::cmp is a total order (cmp(a, a) is
\* Equal, cmp(a, b) is the reverse of cmp(b, a), cmp is transitive, no pair is
\* incomparable), and sorting by cmp leaves the raw values non-decreasing.
C7_CmpIsTotalOrder ==
    /\ \A i \in DOMAIN list : cmp(list[i], list[i]) = "Equal"
    /\ \A i, j \in DOMAIN list :
         /\ cmp(list[i], list[j]) = Reverse(cmp(list[j], list[i]))
         /\ partial_cmp(list[i], list[j]).tag = "Some"
         /\ (cmp(list[i], list[j]) = "Less") <=> (Val(list[i].value) < Val(list[j].value))
    /\ \A i, j, k \in DOMAIN list :
         (cmp(list[i], list[j]) # "Greater" /\ cmp(list[j], list[k]) # "Greater")
             => cmp(list[i], list[k]) # "Greater"
    /\ last.op = "sort" =>
         /\ Len(list) = Len(last.self)
         /\ \A v \in Floats :
              Cardinality({i \in DOMAIN list : list[i].value = v})
                  = Cardinality({i \in DOMAIN last.self : last.self[i].value = v})
         /\ \A i, j \in DOMAIN list :
              i < j => Val(list[i].value) <= Val(list[j].value)

C7_Witness ==
    /\ last.op = "sort" /\ Len(list) = MaxLen
    /\ list # last.self
    /\ list[1].value = NegInf /\ list[2].value \in Zeros /\ list[3].value = PosInf

\* C8: for valid a, b, cmp(a, b) is Equal iff a == b, partial_cmp(a, b) is
\* Some(cmp(a, b)), lt/le/gt/ge agree with cmp, and -0.0 and +0.0 compare
\* Equal in both directions.
C8_ComparisonsAgreeWithCmp ==
    (last.op \in CmpOps /\ ValidPair) =>
        LET o == cmp(x, ArgValue)
        IN  /\ last.op = "cmp" => (out.val = o /\ ((o = "Equal") <=> eq(x, ArgValue)))
            /\ last.op = "partial_cmp" => out = SomeOf(o)
            /\ last.op = "lt" => (out.val <=> o = "Less")
            /\ last.op = "le" => (out.val <=> o # "Greater")
            /\ last.op = "gt" => (out.val <=> o = "Greater")
            /\ last.op = "ge" => (out.val <=> o # "Less")
            /\ (x.value \in Zeros /\ arg.value \in Zeros) =>
                 (o = "Equal" /\ cmp(ArgValue, x) = "Equal")

C8_Witness ==
    /\ last.op = "cmp" /\ ValidPair
    /\ x.value = NegZero /\ arg.value = PosZero /\ out.val = "Equal"

\* The operands of the last binary operator, left and right.
LastLhs == IF last.form = "F_NoisyFloat" THEN arg.value ELSE x.value
LastRhs == IF last.form = "F_NoisyFloat" THEN x.value ELSE arg.value
LastNative ==
    IF last.op = "neg" THEN FNeg(x.value)
    ELSE native(last.op, LastLhs, LastRhs)

\* C9: with debug assertions on, a binary operator (any operand form) or a
\* negation aborts iff the native result fails the policy's check, and
\* otherwise returns that native result wrapped; a raw operand is not checked.
C9_OperatorsValidateResultOnly ==
    (debug /\ last.op \in BinOps \cup {"neg"}) =>
        /\ (status = "panicked") <=> ~check(x.checker, LastNative)
        /\ (out.tag = "panic") <=> (status = "panicked")
        /\ status = "running" =>
             out = Ret([value |-> LastNative, checker |-> x.checker])

C9_Witness ==
    /\ debug /\ last.op = "div" /\ last.form = "NoisyFloat_F"
    /\ x.checker = "FiniteChecker" /\ PolicyHolds(x) /\ x.value = One
    /\ arg.value = PosInf
    /\ status = "running" /\ out.tag = "value" /\ out.val.value = PosZero

DivByZero ==
    /\ last.op = "div" /\ last.form \in {"NoisyFloat_F", "NoisyFloat_NoisyFloat"}
    /\ arg.value = PosZero
    /\ debug /\ PolicyHolds(x)

\* C10 as stated: a / 0.0 aborts for every valid a under FiniteChecker and
\* returns a valid infinite value for every valid a under NumChecker.
C10_Original ==
    DivByZero =>
        IF x.checker = "FiniteChecker" THEN status = "panicked"
        ELSE /\ status = "running" /\ out.tag = "value"
             /\ out.val.value \in Infs /\ NumChecker_check(out.val.value)

\* C10 (amended): a / 0.0 aborts for every valid a under FiniteChecker; under
\* NumChecker it returns a valid infinite value for every valid a other than
\* +0.0 and -0.0, and aborts for those two (the native result is NaN).
C10_DivByZero ==
    DivByZero =>
        IF x.checker = "FiniteChecker" \/ x.value \in Zeros THEN status = "panicked"
        ELSE /\ status = "running" /\ out.tag = "value"
             /\ out.val.value \in Infs /\ NumChecker_check(out.val.value)

C10_Witness ==
    /\ DivByZero /\ x.checker = "NumChecker" /\ x.value = NegInf
    /\ last.form = "NoisyFloat_F"
    /\ status = "running" /\ out.tag = "value" /\ out.val.value = NegInf

\* ---- Float functions a policy cannot serve ---------------------------------
InfinityFns == {"infinity", "neg_infinity"}
InfinityOf(f) == IF f = "infinity" THEN PosInf ELSE NegInf

\* C11 as stated, for every build: nan() aborts under both checkers,
\* infinity() and neg_infinity() abort under FiniteChecker and return the
\* infinite value under NumChecker, and no call returns a value its policy
\* rejects.
C11_Original ==
    /\ last.op = "nan" => status = "panicked"
    /\ (last.op \in InfinityFns /\ x.checker = "FiniteChecker") => status = "panicked"
    /\ (last.op \in InfinityFns /\ x.checker = "NumChecker") =>
          /\ out = Ret(unchecked_new_generic("NumChecker", InfinityOf(last.op)))
          /\ PolicyHolds(out.val)

\* C11: nan() aborts under both checkers in every build; with debug assertions
\* on, infinity() and neg_infinity() abort under FiniteChecker; under NumChecker
\* they return the infinite value, which NumChecker allows.
C11_IncompatibleFnsFailLoudly ==
    /\ last.op = "nan" => status = "panicked"
    /\ (debug /\ last.op \in InfinityFns /\ x.checker = "FiniteChecker") =>
          status = "panicked"
    /\ (last.op \in InfinityFns /\ x.checker = "NumChecker") =>
          /\ out = Ret(unchecked_new_generic("NumChecker", InfinityOf(last.op)))
          /\ PolicyHolds(out.val)

C11_Witness ==
    /\ debug /\ last.op = "neg_infinity" /\ x.checker = "FiniteChecker"
    /\ status = "panicked"

\* ---- fallible construction ------------------------------------------------
FallibleOps == {"try_from_F", "from_primitive", "numcast_from", "try_from"}

\* The raw float the last fallible construction converted its input to, and
\* the policy it was checked against.
LastConverted ==
    [value |-> IF last.op = "try_from" THEN x.value
               ELSE IF arg.kind = "int"
                   THEN Round(IF arg.value < 0 THEN 1 ELSE 0,
                              Abs(arg.value) * UnitsPerOne, 1)
               ELSE arg.value,
     checker |-> IF last.op = "try_from" THEN "FiniteChecker" ELSE x.checker]

\* C12: in every build, TryFrom<F>, FromPrimitive::from_X, NumCast::from and
\* the Num -> Finite TryFrom never abort; they return the wrapped converted
\* float, which satisfies the policy, iff the converted float satisfies the
\* policy, and None / Err("illegal value") otherwise.
C12_FallibleConstructionNeverAborts ==
    last.op \in FallibleOps =>
      /\ status = "running"
      /\ IF PolicyHolds(LastConverted)
         THEN /\ out.tag \in {"Some", "Ok"}
              /\ out.val = LastConverted
              /\ PolicyHolds(out.val)
         ELSE out \in {NoneOf, ErrOf("illegal value")}
      /\ out.tag \in (IF last.op \in {"try_from_F", "try_from"}
                        THEN {"Ok", "Err"} ELSE {"Some", "None"})

C12_Witness ==
    /\ last.op = "from_primitive" /\ arg.kind = "int"
    /\ x.checker = "FiniteChecker" /\ debug
    /\ LastConverted.value \in Infs
    /\ out = NoneOf /\ status = "running"

\* C13: a valid value whose raw float is extracted (raw() or into()) and
\* handed to try_new / TryFrom<F> is reconstructed: the call never fails, and
\* the value returned is equal to the original and has the same raw float.
C13_RoundTrip ==
    (/\ last.op \in {"try_new", "try_from_F"}
     /\ PolicyHolds(x)
     /\ arg \in {RawArg(raw(x)), RawArg(into_F(x))}) =>
      /\ status = "running"
      /\ out.tag = (IF last.op = "try_new" THEN "Some" ELSE "Ok")
      /\ out.val.checker = x.checker
      /\ raw(out.val) = raw(x)
      /\ eq(out.val, x)

C13_Witness ==
    /\ last.op = "try_from_F" /\ x = unchecked_new_generic("NumChecker", NegInf)
    /\ arg = RawArg(into_F(x))
    /\ out = OkOf(x)

\* C14: every value Tree::current returns, for a fresh tree and after any
\* simplify / complicate steps, satisfies the strategy's policy: never NaN,
\* and never infinite under FiniteChecker (both infinities are produced under
\* NumChecker).
C14_GeneratedValuesSatisfyPolicy ==
    last.op = "current" =>
      /\ out.tag = "value"
      /\ out.val.checker = tree.checker
      /\ out.val.value \notin NaNs
      /\ tree.checker = "FiniteChecker" => out.val.value \notin Infs
      /\ PolicyHolds(out.val)

C14_Witness ==
    /\ last.op = "current" /\ tree.moved
    /\ out = Ret(unchecked_new_generic("NumChecker", NegInf))

\* ---- compound assignment against the binary operators --------------------
AssignOps == {op \o "_assign" : op \in BinOps}
AssignOpOf == CHOOSE op \in BinOps : op \o "_assign" = last.op

\* What the binary operator returns for the operands of the last compound
\* assignment.
BinaryOfLastAssign ==
    IF last.form = "NoisyFloat_F"
    THEN NoisyFloat_op_F(AssignOpOf, last.self, arg.value)
    ELSE NoisyFloat_op_NoisyFloat(AssignOpOf, last.self, ArgValue)

\* C15: with debug assertions on, for a valid target a and a raw or wrapped
\* right-hand side b, a op= b aborts iff a op b aborts; when it does not, the
\* target holds the value a op b returns, whose raw float is the native
\* result and satisfies the policy.
C15_AssignRefinesBinaryOp ==
    (debug /\ last.op \in AssignOps /\ PolicyHolds(last.self)) =>
      /\ status = "panicked" <=> BinaryOfLastAssign.tag = "panic"
      /\ status = "running" =>
            /\ out = Unit
            /\ x = BinaryOfLastAssign.val
            /\ x.value = NativeTable[AssignOpOf][last.self.value][arg.value]
            /\ PolicyHolds(x)

C15_Witness ==
    /\ debug /\ last.op = "rem_assign" /\ last.form = "NoisyFloat_NoisyFloat"
    /\ PolicyHolds(last.self) /\ status = "running"
    /\ x.value # last.self.value

\* ---- the two raw-left operators -------------------------------------------
CompatNames == {"compat_" \o op : op \in CompatOps}
CompatOpOf == CHOOSE op \in CompatOps : "compat_" \o op = last.op

\* C16: with debug assertions on, for a raw left operand r, a valid wrapped
\* right operand b and each of + - * /, float_compat.rs's operator (validate
\* r, then the wrapped operator) and float_impl.rs's (native operator, then
\* validate the result) abort on the same operands and otherwise return the
\* same raw float.
C16_RawLeftOperatorsAgree ==
    /\ (debug /\ last.op \in CompatNames /\ PolicyHolds(x)) =>
          /\ (status = "panicked") <=> (out.tag = "panic")
          /\ out.tag = F_op_NoisyFloat(CompatOpOf, arg.value, x).tag
          /\ out.tag = "value" =>
                out.val.value = F_op_NoisyFloat(CompatOpOf, arg.value, x).val.value
    /\ (debug /\ last.op \in CompatOps /\ last.form = "F_NoisyFloat"
          /\ PolicyHolds(x)) =>
          /\ (status = "panicked") <=> (out.tag = "panic")
          /\ out.tag = compat_F_op_NoisyFloat(last.op, arg.value, x).tag
          /\ out.tag = "value" =>
                out.val.value =
                  compat_F_op_NoisyFloat(last.op, arg.value, x).val.value

\* float_compat.rs aborts on an infinite left operand it rejects; the native
\* result inf / b is rejected as well.
C16_Witness ==
    /\ debug /\ last.op = "compat_div" /\ x.checker = "FiniteChecker"
    /\ PolicyHolds(x) /\ arg.value = PosInf
    /\ status = "panicked"
    /\ F_op_NoisyFloat("div", arg.value, x) = Panicked

\* ---- sums and products against folds of the checked operators ------------
\* iter.fold(init, |acc, i| acc op i) with the operator of NoisyFloat: the
\* first step that aborts ends the fold.
RECURSIVE checked_fold(_, _, _)
checked_fold(op, acc, s) ==
    IF acc.tag = "panic" \/ s = <<>> THEN acc
    ELSE checked_fold(op, NoisyFloat_op_NoisyFloat(op, acc.val, Head(s)), Tail(s))

CheckedFoldOfLast ==
    IF last.op = "sum" THEN checked_fold("add", zero(x.checker), list)
    ELSE checked_fold("mul", one(x.checker), list)

\* C17: with debug assertions on, the sum (product) of a sequence of valid
\* values aborts iff the left-to-right fold with the checked + (*) from zero
\* (one) aborts at some step, and otherwise returns the same raw float; the
\* empty sum is zero and the empty product is one.
C17_SumProductAgreeWithCheckedFold ==
    last.op \in {"sum", "product"} =>
      /\ debug =>
            /\ (status = "panicked") <=> (CheckedFoldOfLast.tag = "panic")
            /\ status = "running" =>
                  /\ out.tag = "value"
                  /\ out.val.value = CheckedFoldOfLast.val.value
                  /\ PolicyHolds(out.val)
      /\ list = <<>> =>
            out = Ret([value |-> IF last.op = "sum" THEN PosZero ELSE One,
                       checker |-> x.checker])

\* The sum overflows at its second step and stays infinite: both abort.
C17_Witness ==
    /\ debug /\ last.op = "sum" /\ x.checker = "FiniteChecker"
    /\ Len(list) = 3
    /\ list[1].value = MaxFinite /\ list[2].value = MaxFinite
    /\ list[3].value = MinFinite
    /\ status = "panicked"

\* C18: when a compound assignment on a valid target aborts because the
\* native result violates the policy, the target still holds its previous
\* raw float, so the target observed after the abort satisfies the policy.
C18_TargetKeptOnAbort ==
    (/\ last.op \in AssignOps /\ PolicyHolds(last.self)
     /\ status = "panicked") =>
      /\ x = last.self
      /\ PolicyHolds(x)

\* ---- parsing --------------------------------------------------------------
\* What the float parser made of the last string parsed.
LastParsed == F_from_str_radix(arg.text)

\* C19: from_str_radix returns Err iff the float parser returns Err (and
\* then the parser's error); with debug assertions on, a string that parses
\* to a float the policy rejects aborts instead of yielding Err, and every
\* Ok returned holds the parsed float, which satisfies the policy.
C19_FromStrRadix ==
    last.op = "from_str_radix" =>
      /\ (out.tag = "Err") <=> (LastParsed.tag = "Err")
      /\ out.tag = "Err" => out = LastParsed
      /\ (status = "panicked") <=> (out.tag = "panic")
      /\ (debug /\ LastParsed.tag = "Ok") =>
            IF PolicyHolds([value |-> LastParsed.val, checker |-> x.checker])
            THEN out = OkOf([value |-> LastParsed.val, checker |-> x.checker])
            ELSE status = "panicked"
      /\ (debug /\ out.tag = "Ok") => PolicyHolds(out.val)
      /\ out.tag = "Ok" => out.val.value = LastParsed.val

C19_Witness ==
    /\ debug /\ last.op = "from_str_radix" /\ x.checker = "FiniteChecker"
    /\ arg.text = "-inf"
    /\ status = "panicked"

====
